---- MODULE Spec2Model ----
(***************************************************************************)
(* Model of src/main.py: add_svg_glyphs_to_font, calculate_transform and   *)
(* get_svg_viewbox.  clean_svg_content changes only the text handed to     *)
(* SVGPath.fromstring, whose outcome is a property of the file here.       *)
(*                                                                         *)
(* Numbers: Python floats are modelled by exact rationals [n, d] in lowest *)
(* terms with d > 0; 0.7, 0.3, 0.45 and 0.6 are 7/10, 3/10, 9/20 and 3/5.  *)
(* Strings that the code parses (viewBox values, unicode_hex) are          *)
(* sequences of one-character strings.                                     *)
(***************************************************************************)
EXTENDS Integers, Sequences, FiniteSets, TLC

VARIABLES font, inputFont, svg_data_list, i, pc, log, writes, output, error,
          runNo, firstRun, targs, tresult

vars == <<font, inputFont, svg_data_list, i, pc, log, writes, output, error,
          runNo, firstRun, targs, tresult>>

batchVars == <<font, inputFont, svg_data_list, i, pc, log, writes, output,
               error, runNo, firstRun>>

(***************************************************************************)
(* Bounds of the model.                                                    *)
(***************************************************************************)
\* longest svg_data_list
MaxBatch == 3
\* most whitespace-separated pieces in a viewBox value
MaxPieces == 5

(***************************************************************************)
(* Exact rational arithmetic.                                              *)
(***************************************************************************)
Abs(n) == IF n < 0 THEN -n ELSE n

RECURSIVE GCD(_, _)
GCD(a, b) == IF b = 0 THEN a ELSE GCD(b, a % b)

\* n/d in lowest terms, d # 0
Rat(n, d) ==
    LET g == GCD(Abs(n), Abs(d))
        s == IF d < 0 THEN -1 ELSE 1
    IN  [n |-> (s * n) \div g, d |-> (s * d) \div g]

RInt(k) == [n |-> k, d |-> 1]
RAdd(a, b) == Rat(a.n * b.d + b.n * a.d, a.d * b.d)
RSub(a, b) == Rat(a.n * b.d - b.n * a.d, a.d * b.d)
RMul(a, b) == Rat(a.n * b.n, a.d * b.d)
RDiv(a, b) == Rat(a.n * b.d, a.d * b.n)
RNeg(a) == [n |-> -a.n, d |-> a.d]
RLt(a, b) == a.n * b.d < b.n * a.d
RMin(a, b) == IF RLt(b, a) THEN b ELSE a
RZero == RInt(0)

(***************************************************************************)
(* float(n) of line 26 on tokens made of digits, signs, "." and letters    *)
(* other than e, i, n, f, a: an optional sign, then digits with at most    *)
(* one "." and at least one digit.  Anything else is a ValueError.         *)
(***************************************************************************)
Digits == {"0", "1", "2", "3", "4", "5", "6", "7", "8", "9"}

DigitVal(c) ==
    CASE c = "0" -> 0 [] c = "1" -> 1 [] c = "2" -> 2 [] c = "3" -> 3
      [] c = "4" -> 4 [] c = "5" -> 5 [] c = "6" -> 6 [] c = "7" -> 7
      [] c = "8" -> 8 [] c = "9" -> 9

RECURSIVE Pow(_, _)
Pow(b, e) == IF e = 0 THEN 1 ELSE b * Pow(b, e - 1)

\* value of a string of decimal digits
RECURSIVE DecValue(_)
DecValue(s) ==
    IF s = <<>> THEN 0
    ELSE DecValue(SubSeq(s, 1, Len(s) - 1)) * 10 + DigitVal(s[Len(s)])

float(tok) ==
    LET signed == tok # <<>> /\ tok[1] \in {"-", "+"}
        body == IF signed THEN Tail(tok) ELSE tok
        dots == {k \in 1..Len(body) : body[k] = "."}
        digs == {k \in 1..Len(body) : body[k] \in Digits}
        wellFormed == /\ \A k \in 1..Len(body) : body[k] \in Digits \cup {"."}
                      /\ Cardinality(dots) <= 1
                      /\ digs # {}
    IN  IF ~wellFormed THEN [ok |-> FALSE]
        ELSE LET dot == IF dots = {} THEN Len(body) + 1 ELSE CHOOSE k \in dots : TRUE
                 ip == SubSeq(body, 1, dot - 1)
                 fp == SubSeq(body, dot + 1, Len(body))
                 mag == Rat(DecValue(ip) * Pow(10, Len(fp)) + DecValue(fp),
                            Pow(10, Len(fp)))
             IN  [ok |-> TRUE,
                  val |-> IF signed /\ tok[1] = "-" THEN RNeg(mag) ELSE mag]

(***************************************************************************)
(* str.split() of line 26: the maximal runs of non-blank characters.       *)
(***************************************************************************)
RECURSIVE SplitFrom(_, _, _)
SplitFrom(s, k, cur) ==
    IF k > Len(s) THEN (IF cur = <<>> THEN <<>> ELSE <<cur>>)
    ELSE IF s[k] = " "
         THEN (IF cur = <<>> THEN <<>> ELSE <<cur>>) \o SplitFrom(s, k + 1, <<>>)
         ELSE SplitFrom(s, k + 1, Append(cur, s[k]))

split(s) == SplitFrom(s, 1, <<>>)

(***************************************************************************)
(* get_svg_viewbox.  svg_content is the sequence of the values of the      *)
(* text's viewBox="..." occurrences, in document order.  The pattern needs *)
(* at least one character between the quotes, so re.search stops at the    *)
(* first occurrence with a non-empty value.  Result: None, or the list of  *)
(* floats (of any length).                                                 *)
(***************************************************************************)
None == [found |-> FALSE]

viewbox_match(svg_content) ==
    LET hits == {k \in 1..Len(svg_content) : svg_content[k] # <<>>}
    IN  IF hits = {} THEN None
        ELSE [found |-> TRUE,
              group1 |-> svg_content[CHOOSE k \in hits : \A j \in hits : k <= j]]

\* line 26: the list of floats, or None on a ValueError
parse_numbers(toks) ==
    IF \E k \in 1..Len(toks) : ~float(toks[k]).ok
    THEN None
    ELSE [found |-> TRUE, v |-> [k \in 1..Len(toks) |-> float(toks[k]).val]]

\* lines 24-30
viewbox_of(m) == IF ~m.found THEN None ELSE parse_numbers(split(m.group1))

get_svg_viewbox(svg_content) == viewbox_of(viewbox_match(svg_content))

\* "if viewbox:" of line 36: None and the empty list are false
Truthy(viewbox) == viewbox.found /\ viewbox.v # <<>>

(***************************************************************************)
(* calculate_transform.                                                    *)
(***************************************************************************)
Transform(xx, xy, yx, yy, dx, dy) ==
    [kind |-> "transform", xx |-> xx, xy |-> xy, yx |-> yx, yy |-> yy,
     dx |-> dx, dy |-> dy]

Raises(exc) == [kind |-> "raises", exc |-> exc]

\* line 41
scale_factor(units_per_em, width, height) ==
    RMul(RMin(RDiv(RInt(units_per_em), width), RDiv(RInt(units_per_em), height)),
         Rat(7, 10))

\* lines 44-45
centering_width(advance_width, units_per_em) ==
    IF advance_width = 0 THEN units_per_em ELSE advance_width

\* lines 48-49
translate_x(advance_width, width, x, special_x, s) ==
    RMul(RAdd(RSub(RDiv(RSub(RInt(advance_width), width), RInt(2)), x),
              RInt(special_x)),
         s)

\* mutant of translate_y: the flip of the scale is left out of line 54
translate_y_unflipped(units_per_em, y, height, s) ==
    LET math_axis == RMul(RInt(units_per_em), Rat(3, 10))
        svg_center_y == RAdd(y, RDiv(height, RInt(2)))
    IN  RSub(math_axis, RMul(svg_center_y, s))

\* lines 52-54
translate_y(units_per_em, y, height, s) ==
    LET math_axis == RMul(RInt(units_per_em), Rat(3, 10))
        svg_center_y == RAdd(y, RDiv(height, RInt(2)))
    IN  RSub(math_axis, RMul(svg_center_y, RNeg(s)))

\* lines 59-63
default_transform(units_per_em, advance_width) ==
    LET scale == RDiv(RMul(Rat(7, 10), RInt(units_per_em)), RInt(1000))
    IN  Transform(scale, RZero, RZero, RNeg(scale),
                  RDiv(RSub(RInt(advance_width), RInt(700)), RInt(2)),
                  RMul(RInt(units_per_em), Rat(9, 20)))

\* lines 41-57, with the scale factor s of line 41
viewbox_transform(s, x, y, width, height, units_per_em, advance_width, special_x) ==
    Transform(s, RZero, RZero, RNeg(s),
              translate_x(centering_width(advance_width, units_per_em), width, x,
                          special_x, s),
              translate_y(units_per_em, y, height, s))

\* lines 36-63, with the viewbox of line 34
transform_for(viewbox, units_per_em, advance_width, special_x) ==
    IF Truthy(viewbox)
    THEN IF Len(viewbox.v) # 4
         THEN Raises("ValueError")              \* unpacking, line 38
         ELSE IF viewbox.v[3].n = 0 \/ viewbox.v[4].n = 0
              THEN Raises("ZeroDivisionError")  \* line 41
              ELSE viewbox_transform(
                     scale_factor(units_per_em, viewbox.v[3], viewbox.v[4]),
                     viewbox.v[1], viewbox.v[2], viewbox.v[3], viewbox.v[4],
                     units_per_em, advance_width, special_x)
    ELSE default_transform(units_per_em, advance_width)

calculate_transform(svg_content, units_per_em, advance_width, special_x) ==
    transform_for(get_svg_viewbox(svg_content), units_per_em, advance_width,
                  special_x)

(***************************************************************************)
(* int(unicode_hex, 16) of line 149, on hexadecimal digits and other       *)
(* letters: a ValueError unless every character is a hexadecimal digit and *)
(* there is at least one.                                                  *)
(***************************************************************************)
HexDigits == Digits \cup {"A", "B", "C", "D", "E", "F"}

HexVal(c) ==
    CASE c \in Digits -> DigitVal(c)
      [] c = "A" -> 10 [] c = "B" -> 11 [] c = "C" -> 12
      [] c = "D" -> 13 [] c = "E" -> 14 [] c = "F" -> 15

RECURSIVE HexValue(_)
HexValue(s) ==
    IF s = <<>> THEN 0
    ELSE HexValue(SubSeq(s, 1, Len(s) - 1)) * 16 + HexVal(s[Len(s)])

int16(s) ==
    IF s # <<>> /\ \A k \in 1..Len(s) : s[k] \in HexDigits
    THEN [ok |-> TRUE, val |-> HexValue(s)]
    ELSE [ok |-> FALSE]

(***************************************************************************)
(* The files a request can name.  exists: os.path.exists (line 104);       *)
(* content: the viewBox occurrences of the text; fromstring / draw: whether*)
(* SVGPath.fromstring (line 126) or svg_path.draw / pen.glyph (lines       *)
(* 132-134) raise on this file.                                            *)
(***************************************************************************)
VB_0_0_100_100 == <<"0", " ", "0", " ", "1", "0", "0", " ", "1", "0", "0">>
VB_0_0_0_100 == <<"0", " ", "0", " ", "0", " ", "1", "0", "0">>

SvgFiles == {"missing.svg", "new_cup.svg", "zero_width.svg", "bad_xml.svg",
             "bad_path.svg"}

FileSystem(path) ==
    CASE path = "missing.svg" ->
           [exists |-> FALSE, content |-> <<>>, fromstring |-> "ok", draw |-> "ok"]
      [] path = "new_cup.svg" ->
           [exists |-> TRUE, content |-> <<VB_0_0_100_100>>,
            fromstring |-> "ok", draw |-> "ok"]
      [] path = "zero_width.svg" ->
           [exists |-> TRUE, content |-> <<VB_0_0_0_100>>,
            fromstring |-> "ok", draw |-> "ok"]
      [] path = "bad_xml.svg" ->
           [exists |-> TRUE, content |-> <<VB_0_0_100_100>>,
            fromstring |-> "raises", draw |-> "ok"]
      [] path = "bad_path.svg" ->
           [exists |-> TRUE, content |-> <<VB_0_0_100_100>>,
            fromstring |-> "ok", draw |-> "raises"]

\* the files on which lines 104-134 neither skip nor raise
GoodFiles == {"new_cup.svg"}

\* get_svg_viewbox(svg_text) of line 34 for the text of each file
ViewBoxOfFile == [p \in SvgFiles |-> get_svg_viewbox(FileSystem(p).content)]

(***************************************************************************)
(* Requests and input fonts.                                               *)
(***************************************************************************)
GlyphNames == {"cup", "infinity"}
HexStrings == {<<"2", "2", "2", "A">>, <<"2", "2", "1", "E">>, <<"2", "2", "Z", "Z">>}
AdvanceWidths == {0, 600}
UnitsPerEmValues == {1000, 2048}

\* Every combination on the files that reach lines 141-154; on those a
\* malformed code point too.  On the other files the code never reads
\* glyph_name and unicode_hex, so one value of each stands for all.
Requests ==
    [svg_file_path : GoodFiles, glyph_name : GlyphNames,
     unicode_hex : {h \in HexStrings : int16(h).ok},
     advance_width : AdvanceWidths, special_x : {0}]
    \cup
    [svg_file_path : {"new_cup.svg"}, glyph_name : {"infinity"},
     unicode_hex : {h \in HexStrings : ~int16(h).ok},
     advance_width : {600}, special_x : {0}]
    \cup
    [svg_file_path : SvgFiles \ GoodFiles, glyph_name : {"infinity"},
     unicode_hex : {<<"2", "2", "1", "E">>},
     advance_width : {0}, special_x : {0}]

Batches == UNION {[1..n -> Requests] : n \in 0..MaxBatch}

NoTransform == [kind |-> "none"]
InputOutline == [svg |-> "(input font)", transform |-> NoTransform]

\* the cmap subtables of the input font: without and with Unicode subtables
NoUnicodeCmaps == <<[isUnicode |-> FALSE, cmap |-> (65 :> "cup")]>>

UnicodeCmaps ==
    <<[isUnicode |-> TRUE, cmap |-> (8746 :> "cup")],
      [isUnicode |-> FALSE, cmap |-> (65 :> "cup")],
      [isUnicode |-> TRUE, cmap |-> (8746 :> "cup" @@ 8734 :> ".notdef")]>>

InputFont(u, c) ==
    [unitsPerEm |-> u,
     glyf |-> (".notdef" :> InputOutline @@ "cup" :> InputOutline),
     hmtx |-> (".notdef" :> <<500, 0>> @@ "cup" :> <<700, 10>>),
     cmap |-> c,
     glyphOrder |-> <<".notdef", "cup">>,
     flavor |-> "woff2",
     numGlyphs |-> 2,
     recalcBBoxes |-> TRUE]

InputFonts ==
    {InputFont(u, UnicodeCmaps) : u \in UnitsPerEmValues}
    \cup {InputFont(1000, NoUnicodeCmaps)}

NoFont == [none |-> TRUE]

(***************************************************************************)
(* The statements of the loop body of add_svg_glyphs_to_font.              *)
(***************************************************************************)
\* line 90
cmap_tables(f) == {k \in 1..Len(f.cmap) : f.cmap[k].isUnicode}

\* mutant of DefaultAdvanceWidth: the centering default of line 45
DefaultAdvanceWidthEm(advance_width, units_per_em) ==
    IF advance_width = 0 THEN units_per_em ELSE advance_width

\* lines 109-110: int() truncates; units_per_em * 0.6 = 3 * units_per_em / 5
DefaultAdvanceWidth(advance_width, units_per_em) ==
    IF advance_width = 0 THEN (3 * units_per_em) \div 5 ELSE advance_width

\* lines 113-129: the try block, given the transform of line 122
try_result(file, transform) ==
    IF transform.kind = "raises" THEN [ok |-> FALSE, exc |-> transform.exc]
    ELSE IF file.fromstring = "raises" THEN [ok |-> FALSE, exc |-> "ParseError"]
    ELSE [ok |-> TRUE, transform |-> transform]

\* line 122 is calculate_transform(svg_text, ...), which is transform_for on
\* get_svg_viewbox(svg_text)
TryBlock(r, units_per_em, advance_width) ==
    try_result(FileSystem(r.svg_file_path),
               transform_for(ViewBoxOfFile[r.svg_file_path], units_per_em,
                             advance_width, r.special_x))

\* line 141
SetGlyph(f, glyph_name, glyph) ==
    [f EXCEPT !.glyf = [n \in DOMAIN f.glyf \cup {glyph_name} |->
                           IF n = glyph_name THEN glyph ELSE f.glyf[n]]]

Contains(seq, x) == \E k \in 1..Len(seq) : seq[k] = x

\* mutant of UpdateGlyphOrder: the name is appended without the membership test
UpdateGlyphOrderAlways(f, glyph_name) ==
    [f EXCEPT !.glyphOrder = Append(f.glyphOrder, glyph_name)]

\* lines 144-146
UpdateGlyphOrder(f, glyph_name) ==
    IF ~Contains(f.glyphOrder, glyph_name)
    THEN [f EXCEPT !.glyphOrder = Append(f.glyphOrder, glyph_name)]
    ELSE f

\* mutant of AddToCmap: only the first Unicode subtable is updated
AddToCmapFirstOnly(f, unicode_int, glyph_name) ==
    [f EXCEPT !.cmap = [k \in 1..Len(f.cmap) |->
        IF k \in cmap_tables(f) /\ \A j \in cmap_tables(f) : k <= j
        THEN [f.cmap[k] EXCEPT !.cmap =
                [c \in DOMAIN f.cmap[k].cmap \cup {unicode_int} |->
                    IF c = unicode_int THEN glyph_name ELSE f.cmap[k].cmap[c]]]
        ELSE f.cmap[k]]]

\* lines 150-151
AddToCmap(f, unicode_int, glyph_name) ==
    [f EXCEPT !.cmap = [k \in 1..Len(f.cmap) |->
        IF k \in cmap_tables(f)
        THEN [f.cmap[k] EXCEPT !.cmap =
                [c \in DOMAIN f.cmap[k].cmap \cup {unicode_int} |->
                    IF c = unicode_int THEN glyph_name ELSE f.cmap[k].cmap[c]]]
        ELSE f.cmap[k]]]

\* line 154
SetMetrics(f, glyph_name, advance_width) ==
    [f EXCEPT !.hmtx = [n \in DOMAIN f.hmtx \cup {glyph_name} |->
                           IF n = glyph_name THEN <<advance_width, 0>> ELSE f.hmtx[n]]]

\* lines 158-166
PrepareSave(f) ==
    [f EXCEPT !.flavor = "None", !.numGlyphs = Len(f.glyphOrder),
              !.recalcBBoxes = TRUE]

LogEntry(status, advance_width, transform) ==
    [status |-> status, advance_width |-> advance_width, transform |-> transform]

Result(status, f, advance_width, transform) ==
    [status |-> status, font |-> f,
     entry |-> LogEntry(status, advance_width, transform)]

\* lines 104-106
OnMissing(f, r) == Result("missing", f, r.advance_width, NoTransform)

\* mutant of OnException: the tables are updated before the failure is caught
OnExceptionAfterUpdate(f, r, advance_width) ==
    Result("exception",
           SetMetrics(UpdateGlyphOrder(f, r.glyph_name), r.glyph_name,
                      advance_width),
           advance_width, NoTransform)

\* lines 127-129
OnException(f, r, advance_width) ==
    Result("exception", f, advance_width, NoTransform)

\* lines 132-134 raise: nothing catches it
OnDrawRaises(f, r, advance_width, transform) ==
    Result("raised in draw", f, advance_width, transform)

\* lines 141-149: int() raises after the outline and the glyph order are set
OnHexRaises(f, r, advance_width, glyph) ==
    Result("raised in int", UpdateGlyphOrder(SetGlyph(f, r.glyph_name, glyph),
                                             r.glyph_name),
           advance_width, glyph.transform)

\* lines 141-156
OnAdded(f, r, advance_width, glyph, unicode_int) ==
    Result("added",
           SetMetrics(AddToCmap(UpdateGlyphOrder(SetGlyph(f, r.glyph_name, glyph),
                                                 r.glyph_name),
                                unicode_int, r.glyph_name),
                      r.glyph_name, advance_width),
           advance_width, glyph.transform)

\* the outline of lines 132-134: the file's path under the transform
Glyph(r, transform) == [svg |-> r.svg_file_path, transform |-> transform]

\* lines 141-156, with the glyph of line 134 and the result of line 149
AfterDraw(f, r, advance_width, glyph, unicode_int) ==
    IF ~unicode_int.ok
    THEN OnHexRaises(f, r, advance_width, glyph)
    ELSE OnAdded(f, r, advance_width, glyph, unicode_int.val)

\* lines 127-156, with the result of the try block
AfterTry(f, r, advance_width, try) ==
    IF ~try.ok THEN OnException(f, r, advance_width)
    ELSE IF FileSystem(r.svg_file_path).draw = "raises"
         THEN OnDrawRaises(f, r, advance_width, try.transform)
         ELSE AfterDraw(f, r, advance_width, Glyph(r, try.transform),
                        int16(r.unicode_hex))

\* lines 112-156, with the advance width of lines 109-110
WithAdvanceWidth(f, r, advance_width) ==
    AfterTry(f, r, advance_width, TryBlock(r, f.unitsPerEm, advance_width))

\* lines 100-156: one iteration of the loop on request r
ProcessRequest(f, r) ==
    IF ~FileSystem(r.svg_file_path).exists
    THEN OnMissing(f, r)
    ELSE WithAdvanceWidth(f, r, DefaultAdvanceWidth(r.advance_width, f.unitsPerEm))

(***************************************************************************)
(* The run of add_svg_glyphs_to_font.                                      *)
(*   pc: "open" before the font checks, "loop" in the for loop, "done"     *)
(*   after save, "raised" when an exception left the function.             *)
(***************************************************************************)
Init ==
    /\ font \in InputFonts
    /\ inputFont = font
    /\ svg_data_list \in Batches
    /\ i = 0
    /\ pc = "open"
    /\ log = <<>>
    /\ writes = 0
    /\ output = NoFont
    /\ error = "none"
    /\ runNo = "first"
    /\ firstRun = NoFont
    /\ targs = [svg_content |-> <<>>, units_per_em |-> 0, advance_width |-> 0,
                special_x |-> 0]
    /\ tresult = [kind |-> "pending"]

\* lines 90-92: no Unicode cmap subtable
RaiseNoUnicodeCmap ==
    /\ pc = "open"
    /\ cmap_tables(font) = {}
    /\ pc' = "raised"
    /\ error' = "ValueError: no Unicode cmap"
    /\ UNCHANGED <<font, inputFont, svg_data_list, i, log, writes, output, runNo,
                   firstRun, targs, tresult>>

\* lines 75-100: the font is open and has a Unicode cmap subtable
EnterLoop ==
    /\ pc = "open"
    /\ cmap_tables(font) # {}
    /\ pc' = "loop"
    /\ i' = 1
    /\ UNCHANGED <<font, inputFont, svg_data_list, log, writes, output, error,
                   runNo, firstRun, targs, tresult>>

InLoop == pc = "loop" /\ i <= Len(svg_data_list)

\* the iteration ends with continue or at the end of the body
Continue(res, status) ==
    /\ res.status = status
    /\ font' = res.font
    /\ log' = Append(log, res.entry)
    /\ i' = i + 1
    /\ UNCHANGED <<inputFont, svg_data_list, pc, writes, output, error, runNo,
                   firstRun, targs, tresult>>

\* the iteration raises out of add_svg_glyphs_to_font
Propagate(res, status) ==
    /\ res.status = status
    /\ font' = res.font
    /\ log' = Append(log, res.entry)
    /\ pc' = "raised"
    /\ error' = status
    /\ UNCHANGED <<inputFont, svg_data_list, i, writes, output, runNo, firstRun,
                   targs, tresult>>

\* lines 104-106
SkipMissing ==
    InLoop /\ Continue(ProcessRequest(font, svg_data_list[i]), "missing")

\* lines 109-129: an exception in the try block
SkipException ==
    InLoop /\ Continue(ProcessRequest(font, svg_data_list[i]), "exception")

\* lines 132-134: an exception outside the try block
RaiseInDraw ==
    InLoop /\ Propagate(ProcessRequest(font, svg_data_list[i]), "raised in draw")

\* line 149: int(unicode_hex, 16) raises
RaiseInHex ==
    InLoop /\ Propagate(ProcessRequest(font, svg_data_list[i]), "raised in int")

\* lines 109-156: the request is processed to the end
AddGlyph ==
    InLoop /\ Continue(ProcessRequest(font, svg_data_list[i]), "added")

\* mutant of Save: the font is saved while requests remain
SaveInsideLoop ==
    /\ pc = "loop"
    /\ font' = PrepareSave(font)
    /\ output' = font'
    /\ writes' = writes + 1
    /\ pc' = IF i > Len(svg_data_list) THEN "done" ELSE "loop"
    /\ UNCHANGED <<inputFont, svg_data_list, i, log, error, runNo, firstRun,
                   targs, tresult>>

\* lines 158-170, after the loop
Save ==
    /\ pc = "loop"
    /\ i > Len(svg_data_list)
    /\ font' = PrepareSave(font)
    /\ output' = font'
    /\ writes' = writes + 1
    /\ pc' = "done"
    /\ UNCHANGED <<inputFont, svg_data_list, i, log, error, runNo, firstRun,
                   targs, tresult>>

Next ==
    \/ RaiseNoUnicodeCmap
    \/ EnterLoop
    \/ SkipMissing
    \/ SkipException
    \/ RaiseInDraw
    \/ RaiseInHex
    \/ AddGlyph
    \/ Save

Spec == Init /\ [][Next]_vars

(***************************************************************************)
(* A second run of the script on the same svg_data_list (lines 172-181),   *)
(* reading either the same input font again or the font the first run      *)
(* saved.  firstRun keeps the font the first run saved.                    *)
(***************************************************************************)
Restart(start, run) ==
    /\ pc = "done"
    /\ runNo = "first"
    /\ font' = start
    /\ firstRun' = output
    /\ runNo' = run
    /\ pc' = "open"
    /\ i' = 0
    /\ log' = <<>>
    /\ writes' = 0
    /\ UNCHANGED <<inputFont, svg_data_list, output, error, targs, tresult>>

RerunFromInput == Restart(inputFont, "second, from the input font")

RerunFromOutput == Restart(output, "second, from the saved font")

NextRerun == Next \/ RerunFromInput \/ RerunFromOutput

SpecRerun == Init /\ [][NextRerun]_vars

(***************************************************************************)
(* calculate_transform as a function of its arguments.                     *)
(***************************************************************************)
Pieces == {<<>>, <<"x">>, <<"0">>, <<"1", "0", "0">>, <<"2", ".", "5">>}

RECURSIVE Join(_)
Join(ps) ==
    IF ps = <<>> THEN <<>>
    ELSE IF Len(ps) = 1 THEN ps[1]
    ELSE ps[1] \o <<" ">> \o Join(Tail(ps))

ViewBoxValues == {Join(ps) : ps \in UNION {[1..n -> Pieces] : n \in 0..MaxPieces}}

SvgContents ==
    {<<>>} \cup {<<v>> : v \in ViewBoxValues}
    \cup {<< <<>>, VB_0_0_100_100 >>, <<VB_0_0_100_100, VB_0_0_0_100>>}

TransformArgs ==
    [svg_content : SvgContents, units_per_em : UnitsPerEmValues,
     advance_width : AdvanceWidths, special_x : {0, 10}]

InitT ==
    /\ targs \in TransformArgs
    /\ tresult = [kind |-> "pending"]
    /\ font = NoFont
    /\ inputFont = NoFont
    /\ svg_data_list = <<>>
    /\ i = 0
    /\ pc = "transform"
    /\ log = <<>>
    /\ writes = 0
    /\ output = NoFont
    /\ error = "none"
    /\ runNo = "first"
    /\ firstRun = NoFont

CalculateTransform ==
    /\ pc = "transform"
    /\ tresult.kind = "pending"
    /\ tresult' = calculate_transform(targs.svg_content, targs.units_per_em,
                                      targs.advance_width, targs.special_x)
    /\ UNCHANGED <<batchVars, targs>>

NextT == CalculateTransform

SpecT == InitT /\ [][NextT]_vars

(***************************************************************************)
(* Vocabulary of the properties.                                           *)
(***************************************************************************)
Indices == 1..Len(svg_data_list)

IsMissing(r) == ~FileSystem(r.svg_file_path).exists

\* a request that the loop body processes to its end
IsValid(r) == r.svg_file_path \in GoodFiles /\ int16(r.unicode_hex).ok

CodePoint(r) == int16(r.unicode_hex).val

HasUnicodeCmap(f) == \E k \in 1..Len(f.cmap) : f.cmap[k].isUnicode

\* every request is a missing-file request or a valid one, and both occur
MixedBatch ==
    /\ \A k \in Indices : IsMissing(svg_data_list[k]) \/ IsValid(svg_data_list[k])
    /\ \E k \in Indices : IsMissing(svg_data_list[k])
    /\ \E k \in Indices : IsValid(svg_data_list[k])

InTables(f, name) ==
    /\ name \in DOMAIN f.glyf
    /\ name \in DOMAIN f.hmtx
    /\ Contains(f.glyphOrder, name)

MapsTo(f, cp, name) ==
    \A t \in cmap_tables(f) : cp \in DOMAIN f.cmap[t].cmap /\ f.cmap[t].cmap[cp] = name

\* the last valid request of the batch with the code point of request k
LastWith(k) ==
    CHOOSE j \in Indices :
        /\ IsValid(svg_data_list[j])
        /\ CodePoint(svg_data_list[j]) = CodePoint(svg_data_list[k])
        /\ \A m \in Indices :
              (IsValid(svg_data_list[m])
               /\ CodePoint(svg_data_list[m]) = CodePoint(svg_data_list[k])) => m <= j

(***************************************************************************)
(* C1 as claimed: on a font with a Unicode cmap and a batch mixing         *)
(* missing-file requests with valid ones, nothing is raised and the saved  *)
(* font holds every valid request's glyph in the outline table, the        *)
(* metrics table, the glyph order and, at the request's code point, every  *)
(* Unicode cmap.                                                           *)
(***************************************************************************)
C1_AsClaimed ==
    (MixedBatch /\ HasUnicodeCmap(inputFont)) =>
        /\ pc # "raised"
        /\ pc = "done" =>
              /\ writes = 1
              /\ \A k \in Indices : IsValid(svg_data_list[k]) =>
                    /\ InTables(output, svg_data_list[k].glyph_name)
                    /\ MapsTo(output, CodePoint(svg_data_list[k]),
                              svg_data_list[k].glyph_name)

(***************************************************************************)
(* C1 as amended: as above, but every Unicode cmap maps a valid request's  *)
(* code point to the glyph of the last valid request with that code point. *)
(***************************************************************************)
C1_MissingFilesTolerated ==
    (MixedBatch /\ HasUnicodeCmap(inputFont)) =>
        /\ pc # "raised"
        /\ pc = "done" =>
              /\ writes = 1
              /\ \A k \in Indices : IsValid(svg_data_list[k]) =>
                    /\ InTables(output, svg_data_list[k].glyph_name)
                    /\ MapsTo(output, CodePoint(svg_data_list[k]),
                              svg_data_list[LastWith(k)].glyph_name)

\* C1, witness: a saved run of [valid, missing, valid] whose valid requests share a code
\* point and differ in glyph name
C1_Witness ==
    /\ pc = "done"
    /\ HasUnicodeCmap(inputFont)
    /\ Len(svg_data_list) = 3
    /\ IsValid(svg_data_list[1])
    /\ IsMissing(svg_data_list[2])
    /\ IsValid(svg_data_list[3])
    /\ CodePoint(svg_data_list[1]) = CodePoint(svg_data_list[3])
    /\ svg_data_list[1].glyph_name # svg_data_list[3].glyph_name

SvgProcessingFails(r) ==
    /\ FileSystem(r.svg_file_path).exists
    /\ \/ ~TryBlock(r, inputFont.unitsPerEm,
                    DefaultAdvanceWidth(r.advance_width, inputFont.unitsPerEm)).ok
       \/ FileSystem(r.svg_file_path).draw = "raises"

(***************************************************************************)
(* C2 as claimed: a request whose SVG processing fails (in the transform   *)
(* computation, in SVGPath.fromstring, or in the conversion of the parsed  *)
(* path into a glyph outline) is skipped by the except clause and the loop *)
(* goes on; it never raises out of add_svg_glyphs_to_font.                 *)
(***************************************************************************)
C2_FailuresCaughtPerRequest ==
    \A k \in 1..Len(log) :
        SvgProcessingFails(svg_data_list[k]) =>
            /\ log[k].status = "exception"
            /\ (k = Len(log) => pc # "raised")

(***************************************************************************)
(* C3 as claimed: every run that has ended has written the output font     *)
(* exactly once, and a write happens only after every request was          *)
(* attempted.                                                              *)
(***************************************************************************)
C3_AsClaimed ==
    /\ writes <= 1
    /\ pc \in {"done", "raised"} => writes = 1
    /\ writes = 1 => Len(log) = Len(svg_data_list)

(***************************************************************************)
(* C3 as amended: a run that returns has written the output font exactly   *)
(* once, after every request was attempted (processed or skipped), and the *)
(* file holds the font as it is then; a run that an exception ends has     *)
(* written nothing; nothing is written while requests remain.              *)
(***************************************************************************)
C3_WrittenOnceAtEnd ==
    /\ writes <= 1
    /\ pc = "done" =>
          /\ writes = 1
          /\ output = font
          /\ i = Len(svg_data_list) + 1
          /\ Len(log) = Len(svg_data_list)
          /\ \A k \in Indices : log[k].status \in {"missing", "exception", "added"}
    /\ pc # "done" => (writes = 0 /\ output = NoFont)

\* C3, witness: a saved run in which a request was skipped and the last one was added
C3_Witness ==
    /\ pc = "done"
    /\ writes = 1
    /\ Len(svg_data_list) = 3
    /\ log[1].status = "added"
    /\ log[2].status = "exception"
    /\ log[3].status = "added"

SkipStep ==
    /\ pc = "loop"
    /\ Len(log') = Len(log) + 1
    /\ log'[Len(log')].status \in {"missing", "exception"}

(***************************************************************************)
(* C10: a skipped request (missing file, or an exception caught by the     *)
(* except clause) leaves the font as it was: outlines, metrics, cmaps and  *)
(* glyph order; and the width stored for a request processed later is that *)
(* request's own.                                                          *)
(***************************************************************************)
C10_SkipLeavesFontUnchanged ==
    [][/\ SkipStep => (font' = font /\ pc' = "loop" /\ i' = i + 1)
       /\ \A k \in 1..Len(log') :
             (log'[k].status = "added" /\ svg_data_list[k].advance_width # 0)
                 => log'[k].advance_width = svg_data_list[k].advance_width]_vars

\* C10, witness: an added request, then a skipped one with a file that exists, then an
\* added one with an explicit width
C10_Witness ==
    /\ Len(log) = 3
    /\ log[1].status = "added"
    /\ log[2].status = "exception"
    /\ svg_data_list[2].advance_width = 0
    /\ log[3].status = "added"
    /\ svg_data_list[3].advance_width = 600
    /\ font.glyphOrder # inputFont.glyphOrder

(***************************************************************************)
(* The request processed last and what the font holds for it.              *)
(***************************************************************************)
LastAdded == Len(log) >= 1 /\ log[Len(log)].status = "added"

LastRequest == svg_data_list[Len(log)]

StoredMetrics == font.hmtx[LastRequest.glyph_name]

C6_CenteringUsesUnitsPerEm ==
    (/\ LastAdded
     /\ LastRequest.advance_width = 0
     /\ Truthy(ViewBoxOfFile[LastRequest.svg_file_path])) =>
        log[Len(log)].transform.dx =
            RMul(RAdd(RSub(RDiv(RSub(RInt(font.unitsPerEm),
                                     ViewBoxOfFile[LastRequest.svg_file_path].v[3]),
                                RInt(2)),
                           ViewBoxOfFile[LastRequest.svg_file_path].v[1]),
                      RInt(LastRequest.special_x)),
                 log[Len(log)].transform.xx)

Tables(f) == <<f.glyf, f.hmtx, f.cmap, f.glyphOrder>>

Occurrences(seq, x) == Cardinality({k \in 1..Len(seq) : seq[k] = x})

(***************************************************************************)
(* C4: a second run of the same batch, from the same input font or from    *)
(* the font the first run saved, saves a font with the same outlines,      *)
(* metrics, cmaps and glyph order as the first run's, and with every       *)
(* processed glyph name exactly once in the glyph order.                   *)
(***************************************************************************)
C4_RerunIdempotent ==
    (pc = "done" /\ runNo # "first") =>
        /\ Tables(output) = Tables(firstRun)
        /\ \A k \in Indices :
              /\ Occurrences(output.glyphOrder, svg_data_list[k].glyph_name) <= 1
              /\ log[k].status = "added" =>
                    Occurrences(output.glyphOrder, svg_data_list[k].glyph_name) = 1

\* C4, witness: the second run, started from the font the first run saved,
\* has saved; the
\* batch added a glyph name that the input font did not have
C4_Witness ==
    /\ pc = "done"
    /\ runNo = "second, from the saved font"
    /\ \E k \in Indices :
          /\ log[k].status = "added"
          /\ ~Contains(inputFont.glyphOrder, svg_data_list[k].glyph_name)

(***************************************************************************)
(* The arguments of a finished call of calculate_transform.                *)
(***************************************************************************)
Called == pc = "transform" /\ tresult.kind # "pending"

ArgViewBox == get_svg_viewbox(targs.svg_content)

RPositive(a) == a.n > 0

\* a declared viewBox (x, y, width, height) with width, height > 0
DeclaredViewBox(vb) ==
    /\ vb.found
    /\ Len(vb.v) = 4
    /\ RPositive(vb.v[3])
    /\ RPositive(vb.v[4])

MidpointCentered(vb, t, width) ==
    RAdd(RMul(t.xx, RAdd(vb.v[1], RDiv(vb.v[3], RInt(2)))), t.dx)
        = RDiv(RInt(width), RInt(2))

(***************************************************************************)
(* C7 as claimed: with a declared viewBox and xOffset = 0 the transform    *)
(* maps the viewBox's horizontal midpoint x + width / 2 to half the        *)
(* advance width (unitsPerEm standing for an advance width of 0).          *)
(***************************************************************************)
C7_ViewBoxCentered ==
    (Called /\ DeclaredViewBox(ArgViewBox) /\ targs.special_x = 0) =>
        /\ tresult.kind = "transform"
        /\ MidpointCentered(ArgViewBox, tresult,
                            IF targs.advance_width = 0 THEN targs.units_per_em
                            ELSE targs.advance_width)

ScaleAndFlip(vb, t, units_per_em) ==
    /\ t.xx = RMul(RMin(RDiv(RInt(units_per_em), vb.v[3]),
                        RDiv(RInt(units_per_em), vb.v[4])), Rat(7, 10))
    /\ RPositive(t.xx)
    /\ t.xy = RZero
    /\ t.yx = RZero
    /\ t.yy = RNeg(t.xx)

CenterOnMathAxis(vb, t, units_per_em) ==
    RAdd(RMul(t.yy, RAdd(vb.v[2], RDiv(vb.v[4], RInt(2)))), t.dy)
        = Rat(3 * units_per_em, 10)

FourNumbers(toks) ==
    Len(toks) = 4 /\ \A k \in 1..Len(toks) : float(toks[k]).ok

FirstViewBoxMalformed(svg_content) ==
    svg_content = <<>> \/ ~FourNumbers(split(svg_content[1]))

NotFoundOrFour(vb) == ~vb.found \/ Len(vb.v) = 4

(***************************************************************************)
(* C9 as claimed: get_svg_viewbox returns "not found" or exactly four      *)
(* numbers; when the first viewBox attribute is absent or its value is not *)
(* four whitespace-separated numbers, it returns "not found" and           *)
(* calculate_transform returns the fallback transform.                     *)
(***************************************************************************)
C9_MalformedViewBoxFallsBack ==
    Called =>
        /\ NotFoundOrFour(ArgViewBox)
        /\ FirstViewBoxMalformed(targs.svg_content) =>
              /\ ArgViewBox = None
              /\ tresult = default_transform(targs.units_per_em,
                                             targs.advance_width)

====
